---- MODULE Spec2Model ----
(***************************************************************************)
(* Batch API endpoint tester (src/unnamed/part_000): testApi probes one    *)
(* endpoint with a timeout timer and a retry budget, runWithConcurrency    *)
(* runs the task closures with a bounded working set, main aggregates the  *)
(* outcomes into the report.                                               *)
(*                                                                         *)
(* The event loop is modelled at the granularity of its callbacks: the     *)
(* synchronous part of the for-loop of runWithConcurrency excludes every   *)
(* other callback (mainPc = "loop"), each settlement of a fetch, of a      *)
(* timer, of a body read and of a task closure is one step.                *)
(***************************************************************************)
EXTENDS Integers, Sequences, FiniteSets, TLC

\* ------------------------------------------------------------------ bounds
MaxTasks == 2        \* number of registry entries explored: 0..MaxTasks
MaxConc == 2         \* concurrency bound explored: 1..MaxConc
MaxRetry == 1        \* retry budget explored: 0..MaxRetry
MaxTime == 2         \* the clock Date.now() runs over 0..MaxTime
MaxListLen == 1      \* length of data.list in a generic response: 0..MaxListLen

\* ------------------------------------------------------- JavaScript values
\* A field the object literal does not set reads as undefined.
Undefined == -1
\* `超时`, the message of an outcome whose request was aborted by the timer.
TimeoutMsg == "timeout"

JsUndefined == "undefined"
JsNull == "null"
JsTrue == "true"
JsFalse == "false"

\* ToBoolean of the values hasData / hasValidData can take.
Truthy(v) == v = JsTrue

\* a && b on such values: the left operand when it is falsy, else the right.
JsAnd(a, b) == IF Truthy(a) THEN b ELSE a

JsBool(b) == IF b THEN JsTrue ELSE JsFalse

VARIABLES
    configExists,   \* fs.existsSync(configPath)
    configParses,   \* JSON.parse and Object.keys succeed on the file's content
    named,          \* apiSites[key].name is a string
    concurrency,    \* CONFIG.concurrency
    retryCount,     \* CONFIG.retryCount
    numTasks,       \* apiKeys.length
    endpoint,       \* behaviour of the server behind apiSites[key].api
    now,            \* Date.now()
    mainPc,         \* position of main / runWithConcurrency
    nextTask,       \* index of the for-loop over tasks
    results,        \* runWithConcurrency: results (promises, as task ids)
    executing,      \* runWithConcurrency: executing
    raceSet,        \* the promises handed to the pending Promise.race
    raceWon,        \* the promise that settled that Promise.race, 0 if none yet
    taskPc,         \* position of each task closure / testApi call chain
    retries,        \* testApi: retries of the running invocation
    timer,          \* testApi: the invocations (by number) whose timeoutId is armed
    startTime,      \* testApi: startTime of the running invocation
    elapsed,        \* testApi: elapsed of the running invocation
    response,       \* testApi: response.status of the last response received
    body,           \* testApi: data, the last body parsed
    outcome,        \* value the task closure's testApi call resolved to
    attempts,       \* one entry per testApi invocation: its request
    lines,          \* keys of the progress lines printed, in order
    mainStart,      \* main: startTime
    loads,          \* number of times main looked for the registry file
    display,        \* main: successful after .sort(), the list printed
    report,         \* main: report
    written         \* number of fs.writeFileSync(reportPath, ...) calls

vars == <<configExists, configParses, named, concurrency, retryCount, numTasks,
          endpoint, now, mainPc, nextTask, results, executing, raceSet, raceWon,
          taskPc, retries, timer, startTime, elapsed, response, body, outcome,
          attempts, lines, mainStart, loads, display, report, written>>

taskVars == <<taskPc, retries, timer, startTime, elapsed, response, body,
              outcome, attempts, lines>>
schedVars == <<mainPc, nextTask, results, executing, raceSet, raceWon>>
configVars == <<configExists, configParses, named, concurrency, retryCount,
                numTasks, endpoint>>
reportVars == <<mainStart, loads, display, report, written>>

Tasks == 1..numTasks

\* ------------------------------------------------------------- environment
\* What the server behind an endpoint may do.  "any" is an arbitrary server;
\* A, B, C, D are the four servers of the end-to-end scenario.
Statuses == {200, 404}

NetError == [name |-> "TypeError", message |-> "fetch failed"]
AbortError == [name |-> "AbortError", message |-> "This operation was aborted"]
SyntaxError == [name |-> "SyntaxError", message |-> "Unexpected token"]

NullReadError == [name |-> "TypeError", message |-> "Cannot read properties of null"]

\* Shapes of the parsed body `data`.
ListBody(n) == [shape |-> "list", len |-> n]
OtherBodies == {[shape |-> s, len |-> 0] : s \in {"nolist", "listNotArray", "null"}}
BadBody == [shape |-> "unparsable", len |-> 0]
NoBody == [shape |-> "none", len |-> 0]

\* Results the fetch of attempt number k may settle with, timer aside.
FetchResults(kind, k) ==
    CASE kind = "any" -> {[arrived |-> TRUE, status |-> s] : s \in Statuses}
                         \cup {[arrived |-> FALSE, status |-> 0]}
      [] kind = "A" -> {[arrived |-> TRUE, status |-> 200]}
      [] kind = "B" -> {[arrived |-> TRUE, status |-> 500]}
      [] kind = "C" -> IF k = 1 THEN {[arrived |-> FALSE, status |-> 0]}
                                ELSE {[arrived |-> TRUE, status |-> 200]}
      [] OTHER -> {}

\* Whether the request can stay unanswered until the timer fires.
MayTimeOut(kind) == kind \in {"any", "D"}

\* Results of response.json().
BodyResults(kind) ==
    CASE kind = "any" -> {ListBody(n) : n \in 0..MaxListLen}
                         \cup OtherBodies \cup {BadBody}
      [] kind = "A" -> {ListBody(5)}
      [] kind = "C" -> {ListBody(0)}
      [] OTHER -> {}

\* ---------------------------------------------------------------- testApi
ResponseOkBelow500(status) == status >= 200 /\ status <= 499

\* response.ok
ResponseOk(status) == status >= 200 /\ status <= 299

\* data && data.list && Array.isArray(data.list)
ListIsReadAlways(data) == TRUE

\* data && data.list: the property list is read only of a truthy data; read
\* of null it would throw a TypeError.
ListIsRead(data) == data.shape # "null"

HasData(data) ==
    CASE data.shape = "list" -> JsTrue
      [] data.shape = "nolist" -> JsUndefined
      [] data.shape = "listNotArray" -> JsFalse
      [] OTHER -> JsNull

\* hasData ? data.list.length : 0
DataCount(data) == IF Truthy(HasData(data)) THEN data.len ELSE 0

HasValidDataIgnoringCount(data) == HasData(data)

\* hasData && count > 0
HasValidData(data) == JsAnd(HasData(data), JsBool(DataCount(data) > 0))

NoOutcome ==
    [key |-> 0, status |-> "pending", httpCode |-> Undefined, time |-> Undefined,
     dataCount |-> Undefined, hasValidData |-> JsUndefined, error |-> JsUndefined]

SuccessOutcome(t, status, el, data) ==
    [key |-> t, status |-> "success", httpCode |-> status, time |-> el,
     dataCount |-> DataCount(data), hasValidData |-> HasValidData(data),
     error |-> JsUndefined]

HttpErrorOutcome(t, status, el) ==
    [key |-> t, status |-> "http_error", httpCode |-> status, time |-> el,
     dataCount |-> Undefined, hasValidData |-> JsUndefined,
     error |-> "HTTP"]

\* error.name === 'AbortError' ? '超时' : error.message
ErrorText(err) == IF err.name = "AbortError" THEN TimeoutMsg ELSE err.message

ErrorOutcome(t, el, err) ==
    [key |-> t, status |-> "error", httpCode |-> Undefined, time |-> el,
     dataCount |-> Undefined, hasValidData |-> JsUndefined,
     error |-> ErrorText(err)]

ShouldRetryOffByOne(r, err) == r > 1 /\ err.name # "AbortError"

ShouldRetryAborted(r, err) == r > 0

ShouldRetryTransportOnly(r, err) == r > 0 /\ err.name = "TypeError"

\* retries > 0 && error.name !== 'AbortError'
ShouldRetry(r, err) == r > 0 /\ err.name # "AbortError"

StartTimeOfFirstCall(n, prev, clock) == IF n = 0 THEN clock ELSE prev

\* const startTime = Date.now() of an invocation; n invocations of the task
\* came before it and prev is the startTime of the last of them.
StartTimeOf(n, prev, clock) == clock

\* The request a testApi invocation issues.
NewAttempt == [issued |-> now, ended |-> now, result |-> "pending", status |-> 0]

\* The request of the running invocation ends with res at the point where
\* the invocation computes elapsed; st is the status of the response that
\* arrived, 0 when this end brings none.
EndAttempt(t, res, st) ==
    [attempts EXCEPT ![t][Len(attempts[t])] =
        [issued |-> @.issued, ended |-> now, result |-> res,
         status |-> IF st = 0 THEN @.status ELSE st]]

ClearTimeoutForgotten(armed, k) == armed

\* clearTimeout(timeoutId) of invocation number k.
ClearTimeout(armed, k) == armed \ {k}

\* ----------------------------------------------------------------- Init
InitCommon ==
    /\ now = 0
    /\ mainPc = "start"
    /\ nextTask = 1
    /\ results = <<>>
    /\ executing = {}
    /\ raceSet = {}
    /\ raceWon = 0
    /\ taskPc = [t \in Tasks |-> "queued"]
    /\ retries = [t \in Tasks |-> 0]
    /\ timer = [t \in Tasks |-> {}]
    /\ startTime = [t \in Tasks |-> 0]
    /\ elapsed = [t \in Tasks |-> 0]
    /\ response = [t \in Tasks |-> 0]
    /\ body = [t \in Tasks |-> NoBody]
    /\ outcome = [t \in Tasks |-> NoOutcome]
    /\ attempts = [t \in Tasks |-> <<>>]
    /\ lines = <<>>
    /\ mainStart = 0
    /\ loads = 0
    /\ display = <<>>
    /\ report = [totalApis |-> 0, successCount |-> 0, noDataCount |-> 0,
                 failedCount |-> 0, totalTimeMs |-> 0, results |-> <<>>]
    /\ written = 0

Init ==
    /\ configExists \in BOOLEAN
    /\ configParses \in BOOLEAN
    /\ concurrency \in 1..MaxConc
    /\ retryCount \in 0..MaxRetry
    /\ numTasks \in 0..MaxTasks
    /\ named = [t \in Tasks |-> TRUE]
    /\ endpoint = [t \in Tasks |-> "any"]
    /\ InitCommon

\* As Init, with registry entries that may lack a name.
InitFault ==
    /\ configExists \in BOOLEAN
    /\ configParses \in BOOLEAN
    /\ concurrency \in 1..MaxConc
    /\ retryCount \in 0..MaxRetry
    /\ numTasks \in 0..MaxTasks
    /\ named \in [Tasks -> BOOLEAN]
    /\ endpoint = [t \in Tasks |-> "any"]
    /\ InitCommon

\* A registry of one entry probed under a larger retry budget.
MaxRetrySingle == 2  \* retry budget explored for a single entry: 0..MaxRetrySingle

InitSingle ==
    /\ configExists = TRUE
    /\ configParses = TRUE
    /\ concurrency = 1
    /\ retryCount \in 0..MaxRetrySingle
    /\ numTasks = 1
    /\ named = [t \in Tasks |-> TRUE]
    /\ endpoint = [t \in Tasks |-> "any"]
    /\ InitCommon

\* The four servers of the end-to-end scenario, maxRetries = 1.
ScenarioConc == 4    \* concurrency bounds the scenario is run under: 1..ScenarioConc

InitScenario ==
    /\ configExists = TRUE
    /\ configParses = TRUE
    /\ named = [t \in 1..4 |-> TRUE]
    /\ concurrency \in 1..ScenarioConc
    /\ retryCount = 1
    /\ numTasks = 4
    /\ endpoint = [t \in 1..4 |-> <<"A", "B", "C", "D">>[t]]
    /\ InitCommon

\* ---------------------------------------------------------------- testApi
SetTimeoutFirstCall(armed, k) == IF k = 1 THEN armed \cup {k} ELSE armed

\* const timeoutId = setTimeout(() => controller.abort(), CONFIG.timeout) of
\* invocation k: the controller and the timer are locals of the invocation.
SetTimeout(armed, k) == armed \cup {k}

\* An invocation testApi(key, apiUrl, r): controller, timer, startTime, fetch.
\* att is the log of the task's earlier invocations, armed their timers
\* still armed.
Call(t, r, att, armed) ==
    /\ taskPc' = [taskPc EXCEPT ![t] = "fetch"]
    /\ retries' = [retries EXCEPT ![t] = r]
    /\ timer' = [timer EXCEPT ![t] = SetTimeout(armed, Len(att[t]) + 1)]
    /\ startTime' = [startTime EXCEPT ![t] = StartTimeOf(Len(att[t]), @, now)]
    /\ elapsed' = [elapsed EXCEPT ![t] = 0]
    /\ attempts' = [att EXCEPT ![t] = Append(@, NewAttempt)]

\* The catch block: clearTimeout, elapsed, retry or the error outcome.
\* armed are the timers of the task armed when the block is entered.
Catch(t, err, res, armed) ==
    LET el == now - startTime[t]
        cleared == ClearTimeout(armed, Len(attempts[t])) IN
    /\ IF ShouldRetry(retries[t], err)
          THEN /\ Call(t, retries[t] - 1, EndAttempt(t, res, 0), cleared)
               /\ outcome' = outcome
          ELSE /\ taskPc' = [taskPc EXCEPT ![t] = "returned"]
               /\ timer' = [timer EXCEPT ![t] = cleared]
               /\ elapsed' = [elapsed EXCEPT ![t] = el]
               /\ outcome' = [outcome EXCEPT ![t] = ErrorOutcome(t, el, err)]
               /\ attempts' = EndAttempt(t, res, 0)
               /\ UNCHANGED <<retries, startTime>>
    /\ UNCHANGED <<response, body, lines>>

InTryBlockFetchOnly(pc) == pc = "fetch"

\* The awaits of testApi the try block encloses: fetch and response.json().
InTryBlock(pc) == pc \in {"fetch", "json"}

\* An exception no catch block of testApi handles: the promise of testApi
\* rejects, and with it the await of the task closure.
Throw(t, res) ==
    /\ taskPc' = [taskPc EXCEPT ![t] = "threw"]
    /\ attempts' = EndAttempt(t, res, 0)
    /\ UNCHANGED <<retries, timer, startTime, elapsed, response, body,
                   outcome, lines>>

\* Callbacks run only while main is suspended at an await.
Suspended == mainPc \in {"race", "all"}

\* await fetch(...) resolves with a response.
FetchResolve(t) ==
    /\ Suspended
    /\ taskPc[t] = "fetch"
    /\ \E r \in FetchResults(endpoint[t], Len(attempts[t])) :
          LET el == now - startTime[t] IN
          /\ r.arrived
          /\ timer' = [timer EXCEPT ![t] = ClearTimeout(@, Len(attempts[t]))]
          /\ elapsed' = [elapsed EXCEPT ![t] = el]
          /\ response' = [response EXCEPT ![t] = r.status]
          /\ attempts' = EndAttempt(t, "response", r.status)
          /\ IF ResponseOk(r.status)
                THEN /\ taskPc' = [taskPc EXCEPT ![t] = "json"]
                     /\ outcome' = outcome
                ELSE /\ taskPc' = [taskPc EXCEPT ![t] = "returned"]
                     /\ outcome' = [outcome EXCEPT ![t] =
                                        HttpErrorOutcome(t, r.status, el)]
    /\ UNCHANGED <<retries, startTime, body, lines>>
    /\ UNCHANGED <<configVars, schedVars, reportVars, now>>

\* await fetch(...) rejects with a transport error.
FetchReject(t) ==
    /\ Suspended
    /\ taskPc[t] = "fetch"
    /\ \E r \in FetchResults(endpoint[t], Len(attempts[t])) : ~r.arrived
    /\ Catch(t, NetError, "neterr", timer[t])
    /\ UNCHANGED <<configVars, schedVars, reportVars, now>>

\* The timer callback of invocation k: controller.abort().  The request or
\* body read of that invocation, if still outstanding, rejects with an
\* AbortError; an abort of a settled invocation has no effect.
TimerFire(t) ==
    /\ Suspended
    /\ MayTimeOut(endpoint[t])
    /\ \E k \in timer[t] :
          IF k = Len(attempts[t]) /\ taskPc[t] \in {"fetch", "json"}
            THEN Catch(t, AbortError, "aborted", timer[t] \ {k})
            ELSE /\ timer' = [timer EXCEPT ![t] = @ \ {k}]
                 /\ UNCHANGED <<taskPc, retries, startTime, elapsed, response,
                                body, outcome, attempts, lines>>
    /\ UNCHANGED <<configVars, schedVars, reportVars, now>>

\* await response.json() settles.
BodySettle(t) ==
    /\ Suspended
    /\ taskPc[t] = "json"
    /\ \E d \in BodyResults(endpoint[t]) :
          IF d = BadBody
            THEN IF InTryBlock("json")
                   THEN Catch(t, SyntaxError, "badbody", timer[t])
                   ELSE Throw(t, "badbody")
            ELSE IF d.shape = "null" /\ ListIsRead(d)
                   THEN Catch(t, NullReadError, "readerr", timer[t])
                   ELSE /\ taskPc' = [taskPc EXCEPT ![t] = "returned"]
                        /\ body' = [body EXCEPT ![t] = d]
                        /\ outcome' = [outcome EXCEPT ![t] =
                               SuccessOutcome(t, response[t], elapsed[t], d)]
                        /\ UNCHANGED <<retries, timer, startTime, elapsed,
                                       response, attempts, lines>>
    /\ UNCHANGED <<configVars, schedVars, reportVars, now>>

\* ----------------------------------------------------- runWithConcurrency
\* The promise that settles a Promise.race called on ps: the first, in
\* insertion order, that is settled already (only a rejected promise stays
\* in executing once settled); 0 when none is.
FirstSettled(ps) ==
    LET done == {p \in ps : taskPc[p] = "rejected"} IN
    IF done = {} THEN 0 ELSE CHOOSE p \in done : \A q \in done : p <= q

AtCapacityStrict(size, c) == size > c

AtCapacityOne(size, c) == size >= 1

\* executing.size >= concurrency
AtCapacity(size, c) == size >= c

\* One iteration of the for-loop: task(), results.push, executing.add.
Dispatch ==
    /\ mainPc = "loop"
    /\ nextTask <= numTasks
    /\ LET t == nextTask
           ex == executing \cup {t} IN
       /\ Call(t, retryCount, attempts, timer[t])
       /\ results' = Append(results, t)
       /\ executing' = ex
       /\ nextTask' = nextTask + 1
       /\ IF AtCapacity(Cardinality(ex), concurrency)
             THEN /\ mainPc' = "race"
                  /\ raceSet' = ex
                  /\ raceWon' = FirstSettled(ex)
             ELSE /\ mainPc' = "loop"
                  /\ UNCHANGED <<raceSet, raceWon>>
    /\ UNCHANGED <<response, body, outcome, lines>>
    /\ UNCHANGED <<configVars, reportVars, now>>

ExecutingDeleteAll(ex, p) == {}

\* executing.delete(promise) in the then-callback of the task's promise.
ExecutingDelete(ex, p) == ex \ {p}

ProgressLinesTwice(ls, t) == ls \o <<t, t>>

\* console.log of the task's progress line.
ProgressLines(ls, t) == Append(ls, t)

\* The task closure resumes after testApi.  An exception of testApi is not
\* caught by the closure; site.name.padEnd throws when the
\* entry has no name and the task's promise rejects; otherwise the closure
\* prints its line and returns, and the then-callback removes the promise
\* from executing.  The first promise of a pending Promise.race to settle
\* settles the race.
TaskFinish(t) ==
    /\ Suspended
    /\ taskPc[t] \in {"returned", "threw"}
    /\ IF named[t] /\ taskPc[t] = "returned"
          THEN /\ taskPc' = [taskPc EXCEPT ![t] = "fulfilled"]
               /\ lines' = ProgressLines(lines, t)
               /\ executing' = ExecutingDelete(executing, t)
          ELSE /\ taskPc' = [taskPc EXCEPT ![t] = "rejected"]
               /\ UNCHANGED <<lines, executing>>
    /\ raceWon' = IF mainPc = "race" /\ raceWon = 0 /\ t \in raceSet
                     THEN t ELSE raceWon
    /\ UNCHANGED <<retries, timer, startTime, elapsed, response, body, outcome,
                   attempts>>
    /\ UNCHANGED <<mainPc, nextTask, results, raceSet>>
    /\ UNCHANGED <<configVars, reportVars, now>>

ExitOnFaultZero == "exit0"

\* main().catch: console.error, process.exit(1).
ExitOnFault == "exit1"

\* await Promise.race(executing) settles: fulfilled, the loop resumes;
\* rejected, runWithConcurrency and main reject.
RaceResume ==
    /\ mainPc = "race"
    /\ raceWon # 0
    /\ mainPc' = IF taskPc[raceWon] = "rejected" THEN ExitOnFault ELSE "loop"
    /\ raceSet' = {}
    /\ raceWon' = 0
    /\ UNCHANGED <<nextTask, results, executing>>
    /\ UNCHANGED <<configVars, taskVars, reportVars, now>>

\* The for-loop is exhausted: return Promise.all(results).
LoopEnd ==
    /\ mainPc = "loop"
    /\ nextTask > numTasks
    /\ mainPc' = "all"
    /\ UNCHANGED <<nextTask, results, executing, raceSet, raceWon>>
    /\ UNCHANGED <<configVars, taskVars, reportVars, now>>

\* Promise.all(results) rejects as soon as a promise of results is rejected.
PromiseAllRejected(rs) == \E i \in 1..Len(rs) : taskPc[rs[i]] = "rejected"

PromiseAllButLastReady(rs) == \A i \in 1..(Len(rs) - 1) : taskPc[rs[i]] = "fulfilled"

PromiseAnyReady(rs) == \E i \in 1..Len(rs) : taskPc[rs[i]] = "fulfilled"

\* Promise.all(results) is ready when every promise of results is fulfilled.
PromiseAllReady(rs) == \A i \in 1..Len(rs) : taskPc[rs[i]] = "fulfilled"

ValuesInCompletionOrder(rs) == [i \in 1..Len(rs) |-> outcome[lines[i]]]

\* The value of Promise.all(results): the values in the order of results.
PromiseAllValue(rs) == [i \in 1..Len(rs) |-> outcome[rs[i]]]

\* ------------------------------------------------------------------- main
SuccessfulByStatus(rs) == SelectSeq(rs, LAMBDA r : r.status = "success")

Successful(rs) ==
    SelectSeq(rs, LAMBDA r : r.status = "success" /\ Truthy(r.hasValidData))

NoDataStrictFalse(rs) ==
    SelectSeq(rs, LAMBDA r : r.status = "success" /\ r.hasValidData = JsFalse)

NoData(rs) ==
    SelectSeq(rs, LAMBDA r : r.status = "success" /\ ~Truthy(r.hasValidData))

FailedErrorOnly(rs) == SelectSeq(rs, LAMBDA r : r.status = "error")

Failed(rs) == SelectSeq(rs, LAMBDA r : r.status # "success")

\* Insertion of r into the sorted sequence ss after every element that does
\* not compare greater: (a, b) => a.time - b.time under a stable sort.
RECURSIVE InsertByTime(_, _)
InsertByTime(ss, r) ==
    IF ss = <<>> THEN <<r>>
    ELSE IF Head(ss).time - r.time > 0 THEN <<r>> \o ss
    ELSE <<Head(ss)>> \o InsertByTime(Tail(ss), r)

RECURSIVE InsertByTimeBeforeTies(_, _)
InsertByTimeBeforeTies(ss, r) ==
    IF ss = <<>> THEN <<r>>
    ELSE IF Head(ss).time - r.time >= 0 THEN <<r>> \o ss
    ELSE <<Head(ss)>> \o InsertByTimeBeforeTies(Tail(ss), r)

RECURSIVE SortByTimeUnstable(_)
SortByTimeUnstable(rs) ==
    IF rs = <<>> THEN <<>>
    ELSE InsertByTimeBeforeTies(SortByTimeUnstable(SubSeq(rs, 1, Len(rs) - 1)),
                                rs[Len(rs)])

\* successful.sort((a, b) => a.time - b.time): Array.prototype.sort is stable.
RECURSIVE SortByTime(_)
SortByTime(rs) ==
    IF rs = <<>> THEN <<>>
    ELSE InsertByTime(SortByTime(SubSeq(rs, 1, Len(rs) - 1)), rs[Len(rs)])

BuildReport(rs, total) ==
    [totalApis |-> Len(rs),
     successCount |-> Len(Successful(rs)),
     noDataCount |-> Len(NoData(rs)),
     failedCount |-> Len(Failed(rs)),
     totalTimeMs |-> total,
     results |-> rs]

StartPcIgnoringMissing(exists, parses) == IF parses THEN "loop" ELSE ExitOnFault

\* Where main goes from its start: process.exit(1) when the file is
\* missing, a rejection of main when JSON.parse or Object.keys throws, else
\* into runWithConcurrency.
StartPc(exists, parses) ==
    IF ~exists THEN "exit1" ELSE IF ~parses THEN ExitOnFault ELSE "loop"

\* main up to the call of runWithConcurrency.
Start ==
    /\ mainPc = "start"
    /\ loads' = loads + 1
    /\ mainPc' = StartPc(configExists, configParses)
    /\ mainStart' = IF mainPc' = "loop" THEN now ELSE mainStart
    /\ UNCHANGED <<nextTask, results, executing, raceSet, raceWon, display,
                   report, written>>
    /\ UNCHANGED <<configVars, taskVars, now>>

\* Promise.all(results) settles.  Rejected: runWithConcurrency and main
\* reject.  Fulfilled: main goes on with the statistics, the sorted list,
\* the report and its write, and the process ends.
Finish ==
    /\ mainPc = "all"
    /\ IF PromiseAllRejected(results)
          THEN /\ mainPc' = ExitOnFault
               /\ UNCHANGED <<display, report, written>>
          ELSE /\ PromiseAllReady(results)
               /\ mainPc' = "exit0"
               /\ display' = SortByTime(Successful(PromiseAllValue(results)))
               /\ report' = BuildReport(PromiseAllValue(results), now - mainStart)
               /\ written' = written + 1
    /\ UNCHANGED <<nextTask, results, executing, raceSet, raceWon, mainStart, loads>>
    /\ UNCHANGED <<configVars, taskVars, now>>

\* Time passes while a request or a body read is outstanding.
Tick ==
    /\ Suspended
    /\ now < MaxTime
    /\ \E t \in Tasks : taskPc[t] \in {"fetch", "json"}
    /\ now' = now + 1
    /\ UNCHANGED <<configVars, schedVars, taskVars, reportVars>>

Next ==
    \/ Start
    \/ Dispatch
    \/ RaceResume
    \/ LoopEnd
    \/ Finish
    \/ Tick
    \/ \E t \in Tasks : FetchResolve(t)
    \/ \E t \in Tasks : FetchReject(t)
    \/ \E t \in Tasks : TimerFire(t)
    \/ \E t \in Tasks : BodySettle(t)
    \/ \E t \in Tasks : TaskFinish(t)

Spec == Init /\ [][Next]_vars

\* SpecFault on the event loop: a ready continuation of main runs.
SpecFaultLive ==
    /\ InitFault /\ [][Next]_vars
    /\ WF_vars(Dispatch) /\ WF_vars(RaceResume) /\ WF_vars(LoopEnd)
    /\ WF_vars(Finish)

SpecScenario == InitScenario /\ [][Next]_vars

SpecSingle == InitSingle /\ [][Next]_vars

SpecFault == InitFault /\ [][Next]_vars

\* The continuation of main runs once it is ready: the for-loop goes on when
\* it is not awaiting, and resumes once the promise it awaits has settled.
SpecLive ==
    /\ Init /\ [][Next]_vars
    /\ WF_vars(Dispatch) /\ WF_vars(RaceResume) /\ WF_vars(LoopEnd)

\* ================================================================= claims
\* The category of the data model an outcome record stands for.
Category(o) ==
    CASE o.status = "success" /\ Truthy(o.hasValidData) -> "Success"
      [] o.status = "success" /\ ~Truthy(o.hasValidData) -> "SuccessNoData"
      [] o.status = "http_error" -> "HttpError"
      [] o.status = "error" /\ o.error = TimeoutMsg -> "Timeout"
      [] o.status = "error" /\ o.error # TimeoutMsg -> "NetworkError"
      [] OTHER -> "none"

FailureCategories == {"HttpError", "Timeout", "NetworkError"}

\* testApi has resolved for task t.
Terminal(t) == taskPc[t] \in {"returned", "fulfilled"}

\* Tasks dispatched whose promise has not settled yet.
InFlight == {t \in Tasks : taskPc[t] \in {"fetch", "json", "returned"}}

LastAttempt(t) == attempts[t][Len(attempts[t])]

RECURSIVE SumDurations(_)
SumDurations(as) ==
    IF as = <<>> THEN 0
    ELSE (Head(as).ended - Head(as).issued) + SumDurations(Tail(as))

\* C1: in every reachable state the number of probes dispatched and not yet
\* settled is at most the configured concurrency bound.
C1_InFlightBounded == Cardinality(InFlight) <= concurrency

\* The working set is full while a task is still queued.
C1_Witness ==
    /\ Cardinality(InFlight) = concurrency
    /\ nextTask <= numTasks
    /\ mainPc = "race"

\* C2: when the run has completed, the results of the report are the
\* outcomes of the endpoints in submission order: one per endpoint, results[i]
\* being the outcome of endpoint i.
C2_ResultsInSubmissionOrder ==
    mainPc = "exit0" =>
        /\ Len(report.results) = numTasks
        /\ \A i \in 1..numTasks :
              /\ report.results[i].key = i
              /\ report.results[i] = outcome[i]

\* A completed run in which the second task finished first and the first
\* task was retried.
C2_Witness ==
    /\ mainPc = "exit0"
    /\ lines = <<2, 1>>
    /\ Len(attempts[1]) = 2

\* C3: in a completed report the three counts add up to totalApis, which is
\* the number of results.
C3_CountsPartition ==
    mainPc = "exit0" =>
        /\ report.successCount + report.noDataCount + report.failedCount
              = report.totalApis
        /\ report.totalApis = Len(report.results)
        /\ report.totalApis = numTasks

\* A completed report holding a success outcome whose hasValidData is
\* undefined and a failed outcome.
C3_Witness ==
    /\ mainPc = "exit0"
    /\ \E i \in 1..Len(report.results) :
          /\ report.results[i].status = "success"
          /\ report.results[i].hasValidData = JsUndefined
    /\ \E i \in 1..Len(report.results) : report.results[i].status # "success"

\* C4: a probe that has ended and whose every request failed with a
\* transport error other than an abort made retryCount + 1 requests and is
\* classified NetworkError.
C4_NetworkErrorRetriedToBudget ==
    \A t \in Tasks :
        (Terminal(t) /\ \A i \in 1..Len(attempts[t]) : attempts[t][i].result = "neterr")
        => /\ Len(attempts[t]) = retryCount + 1
           /\ Category(outcome[t]) = "NetworkError"

\* A probe with a positive retry budget that ended after transport errors only.
C4_Witness ==
    \E t \in Tasks :
        /\ retryCount > 0
        /\ Terminal(t)
        /\ \A i \in 1..Len(attempts[t]) : attempts[t][i].result = "neterr"

\* C5: a request aborted by the timer is the last request of its probe, and
\* the probe has ended classified Timeout; so a probe aborted on its first
\* request made exactly one request.
C5_TimeoutNotRetried ==
    \A t \in Tasks : \A i \in 1..Len(attempts[t]) :
        attempts[t][i].result = "aborted"
        => /\ i = Len(attempts[t])
           /\ Terminal(t)
           /\ Category(outcome[t]) = "Timeout"

\* A probe aborted on its first request while a retry remained.
C5_Witness ==
    \E t \in Tasks :
        /\ retries[t] > 0
        /\ Len(attempts[t]) = 1
        /\ attempts[t][1].result = "aborted"

\* C6: a request answered with a non-2xx status is the last request of its
\* probe, and the probe has ended classified HttpError with that status.
C6_HttpErrorTerminal ==
    \A t \in Tasks : \A i \in 1..Len(attempts[t]) :
        (attempts[t][i].result = "response" /\ ~(attempts[t][i].status \in 200..299))
        => /\ i = Len(attempts[t])
           /\ Terminal(t)
           /\ Category(outcome[t]) = "HttpError"
           /\ outcome[t].httpCode = attempts[t][i].status

\* A probe answered 404 while a retry remained.
C6_Witness ==
    \E t \in Tasks :
        /\ retries[t] > 0
        /\ Terminal(t)
        /\ outcome[t].httpCode = 404
        /\ LastAttempt(t).status = 404

\* C7: a success outcome has hasValidData truthy exactly when dataCount > 0;
\* when the body parsed had a list of length n, dataCount is n, and the
\* outcome is Success with hasValidData true for n > 0, SuccessNoData with
\* hasValidData false for n = 0.
C7_ListLengthClassified ==
    \A t \in Tasks :
        (Terminal(t) /\ outcome[t].status = "success")
        => /\ Truthy(outcome[t].hasValidData) <=> outcome[t].dataCount > 0
           /\ body[t].shape = "list" =>
                 /\ outcome[t].dataCount = body[t].len
                 /\ body[t].len > 0 =>
                       /\ Category(outcome[t]) = "Success"
                       /\ outcome[t].hasValidData = JsTrue
                 /\ body[t].len = 0 =>
                       /\ Category(outcome[t]) = "SuccessNoData"
                       /\ outcome[t].hasValidData = JsFalse

\* One probe ended on a non-empty list and another on an empty list.
C7_Witness ==
    /\ \E t \in Tasks :
          Terminal(t) /\ outcome[t].status = "success"
          /\ body[t].shape = "list" /\ body[t].len > 0
    /\ \E t \in Tasks :
          Terminal(t) /\ outcome[t].status = "success"
          /\ body[t].shape = "list" /\ body[t].len = 0

\* C8: in the scenario A (200, list of 5), B (500), C (reset, then 200 with
\* an empty list), D (silent) with one retry, every ended probe has the
\* expected classification and the completed report the expected counts.
C8_Scenario ==
    /\ Terminal(1) =>
          /\ Category(outcome[1]) = "Success"
          /\ outcome[1].dataCount = 5
          /\ Len(attempts[1]) = 1
    /\ Terminal(2) =>
          /\ Category(outcome[2]) = "HttpError"
          /\ outcome[2].httpCode = 500
          /\ Len(attempts[2]) = 1
    /\ Terminal(3) =>
          /\ Category(outcome[3]) = "SuccessNoData"
          /\ outcome[3].dataCount = 0
          /\ Len(attempts[3]) = 2
    /\ Terminal(4) =>
          /\ Category(outcome[4]) = "Timeout"
          /\ Len(attempts[4]) = 1
    /\ mainPc = "exit0" =>
          /\ report.successCount = 1
          /\ report.noDataCount = 1
          /\ report.failedCount = 2
          /\ report.totalApis = 4
          /\ \A i \in 1..4 : report.results[i] = outcome[i] /\ Terminal(i)

\* The scenario completed under concurrency 2 with D finishing before C.
C8_Witness ==
    /\ mainPc = "exit0"
    /\ concurrency = 2
    /\ \E i, j \in 1..Len(lines) : i < j /\ lines[i] = 4 /\ lines[j] = 3

\* C9: when the run has returned, every task was dispatched, every task's
\* promise is fulfilled, and the returned sequence holds every task's outcome.
C9_ReturnsAfterAllTerminal ==
    mainPc = "exit0" =>
        /\ nextTask > numTasks
        /\ \A t \in Tasks : taskPc[t] = "fulfilled"
        /\ Len(report.results) = numTasks
        /\ \A i \in 1..Len(report.results) : report.results[i].status # "pending"

\* Under concurrency 1 the first task failed while the second was queued,
\* and the run completed with both.
C9_Witness ==
    /\ mainPc = "exit0"
    /\ concurrency = 1
    /\ numTasks = 2
    /\ Category(outcome[1]) \in FailureCategories
    /\ Category(outcome[2]) \in FailureCategories
    /\ Category(outcome[1]) # Category(outcome[2])

\* C10 as stated: the time of the outcome of a retried probe is at least the
\* sum of the durations of all its requests.
C10_ElapsedCoversAllAttempts ==
    \A t \in Tasks :
        (Terminal(t) /\ Len(attempts[t]) > 1)
        => outcome[t].time >= SumDurations(attempts[t])

\* C10 amended: the time of an outcome is the duration of the last request
\* of the probe alone, from its issue to the point where its invocation
\* computed elapsed (response arrival, or the failure caught).
C10_ElapsedIsLastAttempt ==
    \A t \in Tasks :
        Terminal(t) => outcome[t].time = LastAttempt(t).ended - LastAttempt(t).issued

\* A retried probe whose first request took time.
C10_Witness ==
    \E t \in Tasks :
        /\ Terminal(t)
        /\ Len(attempts[t]) = 2
        /\ attempts[t][1].ended > attempts[t][1].issued
        /\ outcome[t].time < SumDurations(attempts[t])

\* ------------------------------------------------------ claims C11 to C20
\* The exit status of the process, Undefined while it runs.
ExitStatus ==
    CASE mainPc = "exit0" -> 0
      [] mainPc = "exit1" -> 1
      [] OTHER -> Undefined

RegistryLoadable == configExists /\ configParses

\* C11: the exit status is 0 exactly for the runs that completed (registry
\* loaded, every task fulfilled, report written), however many probes
\* failed; it is 1, once main has started, when the registry cannot be
\* loaded, and it is never 0 once a task closure has thrown.
C11_ExitStatus ==
    /\ ExitStatus = 0 =>
          /\ RegistryLoadable
          /\ \A t \in Tasks : taskPc[t] = "fulfilled"
          /\ written = 1
    /\ written = 1 => ExitStatus = 0
    /\ (~RegistryLoadable /\ loads > 0) => ExitStatus = 1
    /\ (\E t \in Tasks : taskPc[t] = "rejected") => ExitStatus # 0
    /\ ExitStatus = 1 =>
          ~RegistryLoadable \/ \E t \in Tasks : taskPc[t] = "rejected"

\* A run of two probes that both failed ended with status 0.
C11_Witness ==
    /\ ExitStatus = 0
    /\ numTasks = 2
    /\ report.failedCount = 2

\* C12: when the registry file is absent, main looks for it once and exits
\* with status 1: no task is dispatched, no request issued, no report written.
C12_MissingRegistryIsFatal ==
    ~configExists =>
        /\ loads <= 1
        /\ loads = 1 => ExitStatus = 1
        /\ results = <<>>
        /\ \A t \in Tasks : taskPc[t] = "queued" /\ attempts[t] = <<>>
        /\ written = 0

\* The file is absent, the registry would have held tasks, the process exited.
C12_Witness ==
    /\ ~configExists
    /\ numTasks > 0
    /\ ExitStatus = 1

LineCount(t) == Cardinality({i \in 1..Len(lines) : lines[i] = t})

\* C13: the progress lines hold one line for each task that completed and
\* none for the others (so one per task, not one per request), and the line
\* of a task is appended by the very step in which the task completes, which
\* puts the lines in completion order.
C13_OneLinePerTask ==
    /\ [](\A t \in Tasks : LineCount(t) = IF taskPc[t] = "fulfilled" THEN 1 ELSE 0)
    /\ [][\A t \in Tasks :
             (taskPc[t] # "fulfilled" /\ taskPc'[t] = "fulfilled")
             => lines' = Append(lines, t)]_vars
    /\ [][lines' # lines =>
             \E t \in Tasks : taskPc[t] = "returned" /\ lines' = Append(lines, t)]_vars

\* The second task's line precedes the first's, and the second task made two
\* requests.
C13_Witness ==
    /\ lines = <<2, 1>>
    /\ Len(attempts[2]) = 2

EmptyReport ==
    [totalApis |-> 0, successCount |-> 0, noDataCount |-> 0,
     failedCount |-> 0, totalTimeMs |-> 0, results |-> <<>>]

\* C14: the report is written at most once, a completed run has written it
\* once, and when it is written every task has been dispatched and has
\* settled and the working set is empty; until then the report is not built.
C14_ReportWrittenOnceAfterDrain ==
    /\ written <= 1
    /\ mainPc = "exit0" => written = 1
    /\ written = 1 =>
          /\ mainPc = "exit0"
          /\ nextTask > numTasks
          /\ executing = {}
          /\ \A t \in Tasks : taskPc[t] = "fulfilled"
          /\ Len(report.results) = numTasks
    /\ written = 0 => report = EmptyReport

\* The report of a run of two tasks has been written.
C14_Witness ==
    /\ written = 1
    /\ numTasks = 2
    /\ Len(lines) = 2

\* The category of a task that has ended, from what its last request met.
TrueCategory(t) ==
    LET a == LastAttempt(t) IN
    CASE a.result = "aborted" -> "Timeout"
      [] a.result \in {"neterr", "badbody"} -> "NetworkError"
      [] a.result = "response" /\ ~(a.status \in 200..299) -> "HttpError"
      [] a.result = "response" /\ a.status \in 200..299
           /\ body[t].shape = "list" /\ body[t].len > 0 -> "Success"
      [] OTHER -> "SuccessNoData"

TasksOf(cats) == {t \in Tasks : TrueCategory(t) \in cats}

\* C16: in a completed report successCount counts the tasks that ended on a
\* 2xx response with a non-empty list, noDataCount those that ended on any
\* other 2xx response with a parsed body, failedCount those that ended on a
\* non-2xx response, an abort by the timer or an error.
C16_BucketsByCategory ==
    mainPc = "exit0" =>
        /\ report.successCount = Cardinality(TasksOf({"Success"}))
        /\ report.noDataCount = Cardinality(TasksOf({"SuccessNoData"}))
        /\ report.failedCount = Cardinality(TasksOf(FailureCategories))

\* A completed report with one no-data outcome and one failed outcome.
C16_Witness ==
    /\ mainPc = "exit0"
    /\ report.noDataCount = 1
    /\ report.failedCount = 1

\* C17: the list printed holds the successful outcomes ascending by time,
\* outcomes of equal time in submission order, while the results of the
\* report stay the outcomes in submission order and the counts unchanged.
C17_DisplaySortedResultsKept ==
    mainPc = "exit0" =>
        /\ \A i, j \in 1..Len(display) :
              i < j => \/ display[i].time < display[j].time
                       \/ /\ display[i].time = display[j].time
                          /\ display[i].key < display[j].key
        /\ Len(display) = report.successCount
        /\ \A t \in Tasks :
              Category(outcome[t]) = "Success"
              <=> \E i \in 1..Len(display) : display[i] = outcome[t]
        /\ Len(report.results) = numTasks
        /\ \A i \in 1..numTasks : report.results[i] = outcome[i]

\* Two successful outcomes, the second task's the faster: the list printed
\* has them in the other order than the report.
C17_Witness ==
    /\ mainPc = "exit0"
    /\ Len(display) = 2
    /\ display[1].key = 2
    /\ report.results[1].key = 1

\* C18: a request whose 2xx response had an unparsable body is followed by
\* another request while a retry remains; when none remains it is the last
\* request and the probe has ended classified NetworkError.
C18_UnparsableBodyIsNetworkError ==
    \A t \in Tasks : \A i \in 1..Len(attempts[t]) :
        attempts[t][i].result = "badbody" =>
            IF i <= retryCount
              THEN Len(attempts[t]) > i
              ELSE /\ i = Len(attempts[t])
                   /\ Terminal(t)
                   /\ Category(outcome[t]) = "NetworkError"

\* A probe ended after two 2xx responses with unparsable bodies.
C18_Witness ==
    \E t \in Tasks :
        /\ Terminal(t)
        /\ Len(attempts[t]) = 2
        /\ attempts[t][1].result = "badbody"
        /\ attempts[t][2].result = "badbody"

\* C19 as stated: while an invocation waits for its response or for the
\* body of its response, its timer is armed.
C19_TimerArmedWhileSuspended ==
    \A t \in Tasks :
        taskPc[t] \in {"fetch", "json"} => Len(attempts[t]) \in timer[t]

\* C20: only the timer of the running invocation can be armed, and only
\* while its request is pending; a request aborted by the timer received no
\* response; a probe that has ended is classified Timeout exactly when its
\* last request was aborted by the timer.
C20_TimerAndResolutionExclusive ==
    \A t \in Tasks :
        /\ timer[t] \subseteq {Len(attempts[t])}
        /\ timer[t] # {} =>
              taskPc[t] = "fetch" /\ LastAttempt(t).result = "pending"
        /\ \A i \in 1..Len(attempts[t]) :
              attempts[t][i].result = "aborted" => attempts[t][i].status = 0
        /\ Terminal(t) =>
              (Category(outcome[t]) = "Timeout" <=> LastAttempt(t).result = "aborted")

\* One probe ended by its timer, another by a response.
C20_Witness ==
    /\ numTasks = 2
    /\ Terminal(1) /\ LastAttempt(1).result = "aborted"
    /\ Terminal(2) /\ LastAttempt(2).result = "response"

\* ------------------------------------------------------ claims C21 to C30
\* What testApi and the task closure hold for task u.
TaskState(u) ==
    <<taskPc[u], retries[u], timer[u], startTime[u], elapsed[u], response[u],
      body[u], outcome[u], attempts[u]>>

\* C21: every pending request has the timer of its own invocation armed and
\* no other; the step in which a timer aborts a request ends the request of
\* the invocation that armed it and leaves every other task as it was; the
\* step that ends a request leaves the timer of its invocation disarmed.
C21_OwnTimerPerAttempt ==
    /\ [](\A t \in Tasks : taskPc[t] = "fetch" => timer[t] = {Len(attempts[t])})
    /\ [][\A t \in Tasks :
             (/\ attempts[t] # <<>>
              /\ LastAttempt(t).result = "pending"
              /\ attempts'[t][Len(attempts[t])].result = "aborted")
             => /\ Len(attempts[t]) \in timer[t]
                /\ \A u \in Tasks \ {t} : TaskState(u)' = TaskState(u)]_vars
    /\ [][\A t \in Tasks : \A k \in 1..Len(attempts[t]) :
             (attempts[t][k].result = "pending"
              /\ attempts'[t][k].result # "pending")
             => ~(k \in timer'[t])]_vars

\* The first task's request was aborted by its timer while the second task
\* waits for the response to its retry, the retry's own timer armed.
C21_Witness ==
    /\ numTasks = 2
    /\ Terminal(1)
    /\ LastAttempt(1).result = "aborted"
    /\ taskPc[2] = "fetch"
    /\ timer[2] = {2}

\* The tasks the for-loop has started, and those whose promise is fulfilled.
Dispatched == {results[i] : i \in 1..Len(results)}

Completed == {t \in Tasks : taskPc[t] = "fulfilled"}

\* C22: executing holds exactly the tasks started and not yet fulfilled, so
\* its size is the number started less the number fulfilled; the step that
\* fulfils a task removes that task from executing and no other, also while
\* main has not yet resumed from the completion before.
C22_WorkingSetExact ==
    /\ [](/\ executing = Dispatched \ Completed
          /\ Cardinality(executing) = Len(results) - Cardinality(Completed))
    /\ [][\A t \in Tasks :
             (taskPc[t] # "fulfilled" /\ taskPc'[t] = "fulfilled")
             => t \in executing /\ executing' = executing \ {t}]_vars
    /\ [][\A t \in Tasks :
             (t \in executing /\ ~(t \in executing'))
             => taskPc[t] = "returned" /\ taskPc'[t] = "fulfilled"]_vars

\* Two probes completed during one wait of the for-loop, which has not
\* resumed yet, and both have left executing.
C22_Witness ==
    /\ mainPc = "race"
    /\ raceWon # 0
    /\ Cardinality(Completed) = 2
    /\ executing = {}

Running == mainPc \in {"loop", "race", "all"}

FreeSlot == Cardinality(executing) < concurrency

\* C23: the tasks started are 1, 2, ... in that order, each once; a task is
\* started only by the for-loop, and only when executing holds fewer than
\* concurrency promises; and whenever a slot is free while a task is queued,
\* that task is started.
C23_DispatchInOrderNoIdleSlot ==
    /\ [](/\ Len(results) = nextTask - 1
          /\ \A i \in 1..Len(results) : results[i] = i
          /\ \A t \in Tasks : taskPc[t] = "queued" <=> t >= nextTask)
    /\ [][results' # results =>
             /\ mainPc = "loop"
             /\ FreeSlot
             /\ results' = Append(results, nextTask)
             /\ taskPc[nextTask] = "queued"]_vars
    /\ \A k \in 1..MaxTasks :
          (Running /\ nextTask = k /\ k <= numTasks /\ FreeSlot) ~> (nextTask > k)

\* The for-loop waits with executing full and a task queued; and the state
\* after a completion freed a slot with that task still queued.
C23_Witness ==
    /\ mainPc = "race"
    /\ raceWon # 0
    /\ FreeSlot
    /\ nextTask <= numTasks

\* C24: with concurrency at least the number of tasks, the for-loop does not
\* await while a task is queued: until the last task is started no callback
\* has run, so every task started is still waiting for its first response.
C24_FullFanOut ==
    (concurrency >= numTasks /\ Running /\ nextTask <= numTasks) =>
        /\ mainPc = "loop"
        /\ now = mainStart
        /\ \A t \in Dispatched :
              /\ taskPc[t] = "fetch"
              /\ Len(attempts[t]) = 1
              /\ LastAttempt(t).result = "pending"

\* Two tasks, concurrency two: both wait for their first response and the
\* for-loop has come to its first await.
C24_Witness ==
    /\ numTasks = 2
    /\ concurrency >= numTasks
    /\ mainPc = "race"
    /\ \A t \in Tasks : taskPc[t] = "fetch" /\ Len(attempts[t]) = 1

\* C25: with concurrency one, a task is started only after every task
\* before it is fulfilled, at most one task is in flight, and the progress
\* lines come in submission order.
C25_Sequential ==
    concurrency = 1 =>
        /\ Cardinality(InFlight) <= 1
        /\ \A t \in Dispatched : \A u \in 1..(t - 1) : taskPc[u] = "fulfilled"
        /\ \A i \in 1..Len(lines) : lines[i] = i

\* Concurrency one: the second task is in flight, on its retry, after the
\* first task completed after a retry of its own.
C25_Witness ==
    /\ concurrency = 1
    /\ numTasks = 2
    /\ lines = <<1>>
    /\ Len(attempts[1]) = 2
    /\ taskPc[2] = "fetch"
    /\ Len(attempts[2]) = 2

\* C26: testApi never rejects: whatever ended the requests of a task
\* (response, transport error, abort, unparsable body), once testApi is
\* through it has returned an outcome of one of the five categories; a task
\* promise rejects only for an entry without a name, after the outcome was
\* returned, and main exits on a fault only for such an entry or a registry
\* that cannot be loaded.
C26_TestApiNeverRejects ==
    /\ \A t \in Tasks :
          /\ taskPc[t] # "threw"
          /\ taskPc[t] \in {"returned", "fulfilled", "rejected"} =>
                /\ LastAttempt(t).result # "pending"
                /\ Category(outcome[t]) \in
                      {"Success", "SuccessNoData"} \cup FailureCategories
          /\ taskPc[t] = "rejected" => ~named[t]
    /\ (mainPc = "exit1" /\ RegistryLoadable) =>
          \E t \in Tasks : ~named[t] /\ taskPc[t] = "rejected"

\* A run completed whose requests ended in all four ways of failing: a
\* transport error then an abort, an unparsable body then a non-2xx response.
C26_Witness ==
    /\ mainPc = "exit0"
    /\ numTasks = 2
    /\ Len(attempts[1]) = 2 /\ Len(attempts[2]) = 2
    /\ attempts[1][1].result = "neterr" /\ attempts[1][2].result = "aborted"
    /\ attempts[2][1].result = "badbody" /\ attempts[2][2].result = "response"
    /\ Category(outcome[2]) = "HttpError"

\* Tasks with a network operation outstanding: a request or a body read.
Outstanding == {t \in Tasks : taskPc[t] \in {"fetch", "json"}}

PendingAttempts(t) ==
    {i \in 1..Len(attempts[t]) : attempts[t][i].result = "pending"}

\* C27: only the last request of a task can be pending, so a task has at
\* most one request outstanding and the requests outstanding never exceed
\* concurrency; the step that issues a retry finds the request before it
\* ended and the task in executing, and leaves results, executing and the
\* queue as they were.
C27_RetryStaysInSlot ==
    /\ [](/\ \A t \in Tasks : PendingAttempts(t) \subseteq {Len(attempts[t])}
          /\ \A t \in Tasks : PendingAttempts(t) # {} => taskPc[t] = "fetch"
          /\ Outstanding \subseteq executing
          /\ Cardinality(Outstanding) <= concurrency)
    /\ [][\A t \in Tasks :
             (Len(attempts[t]) >= 1 /\ Len(attempts'[t]) = Len(attempts[t]) + 1)
             => /\ attempts'[t][Len(attempts[t])].result # "pending"
                /\ t \in executing
                /\ UNCHANGED <<results, executing, nextTask, mainPc>>]_vars

\* Concurrency two, both tasks waiting for the response to their retry.
C27_Witness ==
    /\ concurrency = 2
    /\ numTasks = 2
    /\ \A t \in Tasks : taskPc[t] = "fetch" /\ Len(attempts[t]) = 2

\* C28: a task issues at most retryCount + 1 requests; a request that was
\* aborted by the timer or that received a response is the last request of
\* its task, whatever came before it and whatever budget remains, and the
\* probe then ends as Timeout, as HttpError for a non-2xx response, or as
\* one of the two success categories for a 2xx response with a parsed body.
C28_FirstDecisiveAttemptIsTerminal ==
    \A t \in Tasks :
        /\ Len(attempts[t]) <= retryCount + 1
        /\ \A i \in 1..Len(attempts[t]) :
              attempts[t][i].result \in {"aborted", "response"}
              => i = Len(attempts[t])
        /\ (Terminal(t) /\ LastAttempt(t).result = "aborted")
              => Category(outcome[t]) = "Timeout"
        /\ (Terminal(t) /\ LastAttempt(t).result = "response")
              => IF LastAttempt(t).status \in 200..299
                   THEN Category(outcome[t]) \in {"Success", "SuccessNoData"}
                   ELSE Category(outcome[t]) = "HttpError"

\* After a transport error the retry was aborted by its timer and the probe
\* ended as Timeout with one retry left in the budget.
C28_Witness ==
    \E t \in Tasks :
        /\ Terminal(t)
        /\ Len(attempts[t]) = 2
        /\ attempts[t][1].result = "neterr"
        /\ attempts[t][2].result = "aborted"
        /\ retries[t] = 1
        /\ Category(outcome[t]) = "Timeout"

\* Tasks that ended on a 2xx response whose parsed body holds no array list.
Listless ==
    {t \in Tasks : Terminal(t) /\ LastAttempt(t).result = "response"
                    /\ LastAttempt(t).status \in 200..299
                    /\ body[t] \in OtherBodies}

\* C29: a request that received a 2xx response with a body that parsed is
\* the last of its task; when the body has no list, a list that is not an
\* array, or is null, the outcome has status success, count 0 and the
\* category SuccessNoData, and a completed report counts it in noDataCount.
C29_ListlessBodyIsNoData ==
    /\ \A t \in Tasks : \A i \in 1..Len(attempts[t]) :
          (attempts[t][i].status \in 200..299 /\ attempts[t][i].result # "badbody")
          => attempts[t][i].result = "response" /\ i = Len(attempts[t])
    /\ \A t \in Listless :
          /\ outcome[t].status = "success"
          /\ outcome[t].dataCount = 0
          /\ Category(outcome[t]) = "SuccessNoData"
    /\ mainPc = "exit0" =>
          /\ report.noDataCount >= Cardinality(Listless)
          /\ report.successCount + report.failedCount
                <= numTasks - Cardinality(Listless)

\* A completed run: one body was null, the other had a list that is not an
\* array, neither was retried although a retry was left, both are counted.
C29_Witness ==
    /\ mainPc = "exit0"
    /\ numTasks = 2
    /\ retryCount = 1
    /\ Listless = {1, 2}
    /\ body[1].shape = "null"
    /\ body[2].shape = "listNotArray"
    /\ Len(attempts[1]) = 1 /\ Len(attempts[2]) = 1
    /\ report.noDataCount = 2

Rejected == {t \in Tasks : taskPc[t] = "rejected"}

\* C30: once a task closure has thrown, no report is built or written and
\* the exit status is never 0; runWithConcurrency at Promise.all does not
\* return; and the process exits with status 1, whatever the other probes
\* are doing.
C30_TaskRejectionIsFatal ==
    /\ [](Rejected # {} =>
            /\ written = 0
            /\ report = EmptyReport
            /\ ExitStatus # 0)
    /\ [][(Rejected # {} /\ mainPc = "all") => mainPc' \in {"all", "exit1"}]_vars
    /\ (Rejected # {}) ~> (ExitStatus = 1)

\* The closure of the first task threw while the second task waits for its
\* response: the process has exited with status 1.
C30_Witness ==
    /\ numTasks = 2
    /\ ExitStatus = 1
    /\ taskPc[1] = "rejected"
    /\ taskPc[2] = "fetch"
    /\ written = 0

====
